---- MODULE Spec2Model ----
(***************************************************************************)
(* Model of the inky e-paper driver: the hardware link (display.rs), the   *)
(* two controller drivers (inkye673.rs, inkywhat.rs) and their pixel       *)
(* packers.  The bus/GPIO facility is the rppal crate: a pin can be held    *)
(* by one owner per process (Gpio::get), an interrupt armed on an input     *)
(* pin stays armed until clear_interrupt, and poll_interrupt returns        *)
(* Ok(Some) on an edge, Ok(None) when its timeout elapses, and Err on an    *)
(* I/O failure; with no timeout it blocks until an edge arrives.            *)
(***************************************************************************)
EXTENDS Integers, Sequences, FiniteSets, TLC

(* ------------------------------ bounds --------------------------------- *)
\* driver handles a program may hold at once
MaxHandles == 2
\* longest packed buffer handed to update in the protocol model
MaxBufLen == 1
\* pixels of a full-palette grid given to the packers
MaxPixels == 4
\* pixels of a black/white grid given to the packers
MaxMonoPixels == 9
\* rows of a grid given to the packers
MaxRows == 2
\* largest coordinate of an end point or corner given to the rasterizers
MaxCoord == 4

(* ------------------------- program constants --------------------------- *)
PinCS == 8
PinDC == 22
PinReset == 27
PinBusy == 17
\* data.chunks(4096) in spi_send
MaxTransfer == 4096
\* timeout.unwrap_or(Duration::from_millis(100)) in InkyE673::wait
DefaultLevelSleep == 100
\* Option<Duration>::None
NoTimeout == -1

Pins == {PinCS, PinDC, PinReset, PinBusy}
Handles == 1..MaxHandles
Colors == {"Black", "White", "Yellow", "Red", "Blue", "Green"}

\* the panel descriptors read from the EEPROM: variant, width, height
Descriptors ==
  { [variant |-> "E673", width |-> 800, height |-> 480],
    [variant |-> "What", width |-> 400, height |-> 300],
    [variant |-> "Phat", width |-> 212, height |-> 104] }

NoLink == [driver |-> "none", variant |-> "none", width |-> 0, height |-> 0]

\* a driver value: its type and the descriptor its connection keeps
Link(driver, desc) ==
  [driver |-> driver, variant |-> desc.variant, width |-> desc.width,
   height |-> desc.height]

\* crate::lut::LUT_BLACK, the waveform table sent with SetLUT
LUT_BLACK == <<0, 0, 0>>

VARIABLES
  links,      \* handle -> the driver (type and descriptor) that owns a link, or NoLink
  pinsTaken,  \* pins held by some link (rppal's per-process pin table)
  spiOpen,    \* number of open handles on the SPI bus
  csLine, dcLine, resetLine,   \* output line levels, 0 low / 1 high
  busyLine,   \* level of the busy input, driven by the panel
  watch,      \* interrupt armed on the busy line: "none", "rising", "falling"
  edge,       \* an armed edge has fired and not been consumed
  call,       \* the call in flight or last returned
  pc,         \* index of the current instruction of the call, 0 when returned
  sub,        \* position inside the current instruction
  off,        \* bytes of the payload already written
  log,        \* what the current call has done so far
  result,     \* outcome of the last returned call
  grid, packed, stage,  \* input, output and progress of the packers
  shape, cells, rstage, \* input, output and progress of the rasterizers
  canvas,     \* Canvas: width, height and the rows of pixels
  painted,    \* coordinate -> color of the last draw that produced it
  cstatus     \* "ok" while every draw has returned

hwvars == <<links, pinsTaken, spiOpen, csLine, dcLine, resetLine, busyLine,
            watch, edge, call, pc, sub, off, log, result>>
pkvars == <<grid, packed, stage>>
rsvars == <<shape, cells, rstage>>
cnvars == <<canvas, painted, cstatus>>
cvvars == <<grid, packed, stage, shape, cells, rstage, canvas, painted, cstatus>>
vars == <<links, pinsTaken, spiOpen, csLine, dcLine, resetLine, busyLine,
          watch, edge, call, pc, sub, off, log, result, grid, packed, stage,
          shape, cells, rstage, canvas, painted, cstatus>>

(* --------------------------- small helpers ------------------------------ *)
SampleBytes == {17, 165}

\* every sequence over S of length at most n
RECURSIVE SeqsUpTo(_, _)
SeqsUpTo(S, n) ==
  IF n = 0 THEN {<<>>}
  ELSE LET shorter == SeqsUpTo(S, n - 1)
       IN shorter \cup {Append(q, x) : q \in {r \in shorter : Len(r) = n - 1}, x \in S}

\* the packed buffers a caller hands to update
Bufs == SeqsUpTo(SampleBytes, MaxBufLen)

Min(a, b) == IF a < b THEN a ELSE b

\* f[1] + ... + f[k]
RECURSIVE SumTo(_, _)
SumTo(f, k) == IF k = 0 THEN 0 ELSE f[k] + SumTo(f, k - 1)

Call(op, h, variant, buf, t, cmd, hasData) ==
  [op |-> op, h |-> h, variant |-> variant, buf |-> buf, t |-> t,
   cmd |-> cmd, hasData |-> hasData]

NoCall == Call("none", 0, "none", <<>>, NoTimeout, 0, FALSE)

\* one entry of the record of what a call did
Ev(k, data, dc, cs, ok) == [k |-> k, data |-> data, dc |-> dc, cs |-> cs, ok |-> ok]

Idle == pc = 0

(* ------------------------ Hardware Link (display.rs) -------------------- *)
\* Gpio::get as if rppal kept no table of the pins in use
GpioGetShared(taken, pin) == TRUE

\* Gpio::get(pin): Err(PinUsed) when the pin is already held in this process
GpioGet(taken, pin) == pin \notin taken

\* InkyConnection::new: Gpio::new()?, Spi::new(..)?, then the four pins in
\* the order cs, dc, reset, busy; whatever was acquired before a failure is
\* dropped again.  env is the platform's answer to Gpio::new / Spi::new.
ConnectionNew(h, link, env) ==
  IF env # "ok"
  THEN /\ result' = env
       /\ UNCHANGED <<links, pinsTaken, spiOpen, csLine, dcLine, resetLine>>
  ELSE IF \A p \in Pins : GpioGet(pinsTaken, p)
  THEN /\ links' = [links EXCEPT ![h] = link]
       /\ pinsTaken' = pinsTaken \cup Pins
       /\ spiOpen' = spiOpen + 1
       /\ csLine' = 1
       /\ dcLine' = 0
       /\ resetLine' = 1
       /\ result' = "ok"
  ELSE /\ result' = "pin_used"
       /\ UNCHANGED <<links, pinsTaken, spiOpen, csLine, dcLine, resetLine>>

EnvOutcomes == {"ok", "gpio_error", "spi_error"}

\* new of a driver type: ensure!(the descriptor's variant is the driver's),
\* then InkyConnection::new(eeprom)?
DriverNew(driver, h, desc, env) ==
  IF desc.variant = driver
  THEN ConnectionNew(h, Link(driver, desc), env)
  ELSE /\ result' = "variant_error"
       /\ UNCHANGED <<links, pinsTaken, spiOpen, csLine, dcLine, resetLine>>

\* InkyE673::new
InkyE673_new(h, desc, env) ==
  /\ Idle
  /\ links[h] = NoLink
  /\ call' = Call("E673::new", h, desc.variant, <<>>, NoTimeout, 0, FALSE)
  /\ log' = <<>>
  /\ DriverNew("E673", h, desc, env)
  /\ UNCHANGED <<busyLine, watch, edge, pc, sub, off>>
  /\ UNCHANGED cvvars

\* InkyWhat::new
InkyWhat_new(h, desc, env) ==
  /\ Idle
  /\ links[h] = NoLink
  /\ call' = Call("What::new", h, desc.variant, <<>>, NoTimeout, 0, FALSE)
  /\ log' = <<>>
  /\ DriverNew("What", h, desc, env)
  /\ UNCHANGED <<busyLine, watch, edge, pc, sub, off>>
  /\ UNCHANGED cvvars

\* the match of Inky::try_from with its two driver arms exchanged
DispatchSwapped(variant) ==
  CASE variant = "E673" -> "What"
    [] variant = "What" -> "E673"
    [] OTHER -> "none"

\* the match of Inky::try_from: the driver type built for a variant, "none"
\* for the arm that bails
Dispatch(variant) ==
  CASE variant = "E673" -> "E673"
    [] variant = "What" -> "What"
    [] OTHER -> "none"

\* Inky::try_from: the matching driver's new, bail! on any other variant
Inky_try_from(h, desc, env) ==
  /\ Idle
  /\ links[h] = NoLink
  /\ call' = Call("Inky::try_from", h, desc.variant, <<>>, NoTimeout, 0, FALSE)
  /\ log' = <<>>
  /\ IF Dispatch(desc.variant) # "none"
     THEN DriverNew(Dispatch(desc.variant), h, desc, env)
     ELSE /\ result' = "unsupported_variant"
          /\ UNCHANGED <<links, pinsTaken, spiOpen, csLine, dcLine, resetLine>>
  /\ UNCHANGED <<busyLine, watch, edge, pc, sub, off>>
  /\ UNCHANGED cvvars

\* the driver goes out of scope: rppal's Drop releases the pins, closes the
\* bus handle and removes the interrupt of the input pin
DropLink(h) ==
  /\ Idle
  /\ links[h] # NoLink
  /\ links' = [links EXCEPT ![h] = NoLink]
  /\ pinsTaken' = pinsTaken \ Pins
  /\ spiOpen' = spiOpen - 1
  /\ watch' = "none"
  /\ edge' = FALSE
  /\ call' = Call("drop", h, links[h].driver, <<>>, NoTimeout, 0, FALSE)
  /\ log' = <<>>
  /\ result' = "ok"
  /\ UNCHANGED <<csLine, dcLine, resetLine, busyLine, pc, sub, off>>
  /\ UNCHANGED cvvars

\* the panel drives the busy line; an armed watch records a matching edge
BusyToggle ==
  /\ busyLine' = 1 - busyLine
  /\ edge' = (edge \/ (watch = "rising" /\ busyLine' = 1)
                   \/ (watch = "falling" /\ busyLine' = 0))
  /\ UNCHANGED <<links, pinsTaken, spiOpen, csLine, dcLine, resetLine,
                 watch, call, pc, sub, off, log, result>>
  /\ UNCHANGED cvvars

(* ------------------------- driver programs ------------------------------ *)
\* enum DisplayCommands of inkye673.rs
E673Cmd ==
  [PSR |-> 0, PWR |-> 1, POF |-> 2, POFS |-> 3, PON |-> 4, BTST1 |-> 5,
   BTST2 |-> 6, DSLP |-> 7, BTST3 |-> 8, DTM1 |-> 16, DSP |-> 17, DRF |-> 18,
   PLL |-> 48, CDI |-> 80, TCON |-> 96, TRES |-> 97, REV |-> 112,
   VDCS |-> 130, PWS |-> 227]

\* enum DisplayCommands of inkywhat.rs
WhatCmd ==
  [DataEntryMode |-> 17, DisplayUpdateSequence |-> 34, DummyLinePeriod |-> 58,
   EnterDeepSleep |-> 16, GSTransition |-> 60, GateDrivingVoltage |-> 3,
   GateLineWidth |-> 59, GateSetting |-> 1, SetAnalogBlockControl |-> 116,
   SetDigitalBlockControl |-> 126, SetLUT |-> 50, SetRamXPointerStart |-> 78,
   SetRamXStartEnd |-> 68, SetRamYPointerStart |-> 79, SetRamYStartEnd |-> 69,
   SoftReset |-> 18, SourceDrivingVoltage |-> 4, TriggerDisplayUpdate |-> 32,
   VComRegister |-> 44, SetBWBuffer |-> 36, SetRYBuffer |-> 38]

\* one statement of a driver method
Instr(k, cmd, hasData, data, t) ==
  [k |-> k, cmd |-> cmd, hasData |-> hasData, data |-> data, t |-> t]

\* self.spi_send(SpiPacket::with_data(cmd, data))?
SendD(cmd, data) == Instr("send", cmd, TRUE, data, NoTimeout)
\* self.spi_send(SpiPacket::no_data(cmd))?
SendN(cmd) == Instr("send", cmd, FALSE, <<>>, NoTimeout)
\* self.wait(t)?
WaitI(t) == Instr("wait", 0, FALSE, <<>>, t)
\* reset.set_low(); sleep(..)
ResetLowI == Instr("reset_low", 0, FALSE, <<>>, NoTimeout)
\* reset.set_high(); sleep(..)
ResetHighI == Instr("reset_high", 0, FALSE, <<>>, NoTimeout)

\* (v as u16).to_le_bytes()
LeBytes16(v) == << (v % 65536) % 256, (v % 65536) \div 256 >>

\* InkyE673::reset
E673ResetProg ==
  << ResetLowI, ResetHighI, WaitI(300),
     SendD(170, <<73, 85, 32, 8, 9, 24>>),
     SendD(E673Cmd.PWR, <<63>>),
     SendD(E673Cmd.PSR, <<95, 105>>),
     SendD(E673Cmd.BTST1, <<64, 31, 31, 44>>),
     SendD(E673Cmd.BTST3, <<111, 31, 31, 34>>),
     SendD(E673Cmd.BTST2, <<111, 31, 23, 23>>),
     SendD(E673Cmd.POFS, <<0, 84, 0, 68>>),
     SendD(E673Cmd.TCON, <<2, 0>>),
     SendD(E673Cmd.PLL, <<8>>),
     SendD(E673Cmd.CDI, <<63>>),
     SendD(E673Cmd.TRES, <<3, 32, 1, 224>>),
     SendD(E673Cmd.PWS, <<47>>),
     SendD(E673Cmd.VDCS, <<1>>) >>

\* InkyE673::update returning after the refresh wait, the panel left powered
E673UpdateNoPowerOff(buf) ==
  E673ResetProg \o
  << SendD(E673Cmd.DTM1, buf),
     SendN(E673Cmd.PON),
     WaitI(300),
     SendD(E673Cmd.BTST2, <<111, 31, 23, 73>>),
     SendD(E673Cmd.DRF, <<0>>),
     WaitI(32000) >>

\* InkyE673::update
E673UpdateProg(buf) ==
  E673ResetProg \o
  << SendD(E673Cmd.DTM1, buf),
     SendN(E673Cmd.PON),
     WaitI(300),
     SendD(E673Cmd.BTST2, <<111, 31, 23, 73>>),
     SendD(E673Cmd.DRF, <<0>>),
     WaitI(32000),
     SendD(E673Cmd.POF, <<0>>),
     WaitI(300) >>

\* InkyWhat::reset with its wait moved ahead of the soft reset
WhatResetWaitFirst ==
  << ResetLowI, ResetHighI, WaitI(NoTimeout), SendN(WhatCmd.SoftReset) >>

\* InkyWhat::reset
WhatResetProg ==
  << ResetLowI, ResetHighI, SendN(WhatCmd.SoftReset), WaitI(NoTimeout) >>

\* InkyWhat::update; the 50 ms sleep before the wait changes no state
WhatUpdateProg(buf, desc) ==
  << SendD(WhatCmd.SetAnalogBlockControl, <<84>>),
     SendD(WhatCmd.SetDigitalBlockControl, <<59>>),
     SendD(WhatCmd.GateSetting, LeBytes16(desc.height) \o <<0>>),
     SendD(WhatCmd.GateDrivingVoltage, <<23>>),
     SendD(WhatCmd.SourceDrivingVoltage, <<65, 172, 50>>),
     SendD(WhatCmd.DummyLinePeriod, <<7>>),
     SendD(WhatCmd.GateLineWidth, <<4>>),
     SendD(WhatCmd.DataEntryMode, <<3>>),
     SendD(WhatCmd.VComRegister, <<60>>),
     SendD(WhatCmd.GSTransition, <<49>>),
     SendD(WhatCmd.SetLUT, LUT_BLACK),
     SendD(WhatCmd.SetRamXStartEnd, <<0, ((desc.width \div 8) - 1) % 256>>),
     SendD(WhatCmd.SetRamYStartEnd, <<0, 0>> \o LeBytes16(desc.height)),
     SendD(WhatCmd.SetRamXPointerStart, <<0>>),
     SendD(WhatCmd.SetRamYPointerStart, <<0, 0>>),
     SendD(WhatCmd.SetBWBuffer, buf),
     SendD(WhatCmd.DisplayUpdateSequence, <<199>>),
     SendN(WhatCmd.TriggerDisplayUpdate),
     WaitI(NoTimeout),
     SendD(WhatCmd.EnterDeepSleep, <<1>>) >>

\* the statements of the call c, by the driver that handle c.h holds
Prog(c) ==
  CASE c.op = "update" /\ c.variant = "E673" -> E673UpdateProg(c.buf)
    [] c.op = "update" /\ c.variant = "What" -> WhatUpdateProg(c.buf, links[c.h])
    [] c.op = "reset" /\ c.variant = "E673" -> E673ResetProg
    [] c.op = "reset" /\ c.variant = "What" -> WhatResetProg
    [] c.op = "wait" -> << WaitI(c.t) >>
    [] c.op = "spi_send" -> << Instr("send", c.cmd, c.hasData, c.buf, NoTimeout) >>
    [] OTHER -> << >>

Cur == Prog(call)[pc]

(* --------------------------- calls and steps ---------------------------- *)
Timeouts == {NoTimeout, 300}

\* the packets a caller hands to spi_send directly
Packets ==
  { [cmd |-> 4, hasData |-> FALSE, data |-> <<>>],
    [cmd |-> 16, hasData |-> TRUE, data |-> <<>>],
    [cmd |-> 16, hasData |-> TRUE, data |-> <<17, 165>>] }

Begin(c) ==
  /\ Idle
  /\ links[c.h] # NoLink
  /\ call' = c
  /\ pc' = 1
  /\ sub' = "top"
  /\ off' = 0
  /\ log' = <<>>
  /\ result' = "pending"
  /\ UNCHANGED <<links, pinsTaken, spiOpen, csLine, dcLine, resetLine,
                 busyLine, watch, edge>>
  /\ UNCHANGED cvvars

\* display.update(buf)
CallUpdate(h, buf) ==
  Begin(Call("update", h, links[h].driver, buf, NoTimeout, 0, FALSE))

\* display.reset()
CallReset(h) ==
  Begin(Call("reset", h, links[h].driver, <<>>, NoTimeout, 0, FALSE))

\* display.wait(timeout)
CallWait(h, t) ==
  Begin(Call("wait", h, links[h].driver, <<>>, t, 0, FALSE))

\* display.spi_send(packet)
CallSpiSend(h, p) ==
  Begin(Call("spi_send", h, links[h].driver, p.data, NoTimeout, p.cmd, p.hasData))

Running(k, s) == pc > 0 /\ Cur.k = k /\ sub = s

\* the statement ended in Ok: go to the next one, or return Ok(()) after the last
Proceed ==
  /\ sub' = "top"
  /\ off' = 0
  /\ IF pc = Len(Prog(call))
     THEN pc' = 0 /\ result' = "ok"
     ELSE pc' = pc + 1 /\ UNCHANGED result

\* the ? operator on an Err if it did not return from the method
Swallow ==
  /\ sub' = "top"
  /\ off' = 0
  /\ IF pc = Len(Prog(call))
     THEN pc' = 0 /\ result' = "ok"
     ELSE pc' = pc + 1 /\ UNCHANGED result

\* the ? operator on an Err: the method, and every method that called it
\* with ?, returns the error at once
Propagate ==
  /\ pc' = 0
  /\ sub' = "top"
  /\ off' = 0
  /\ result' = "io_error"

\* reset.set_low(); sleep(..)
ResetLow ==
  /\ Running("reset_low", "top")
  /\ resetLine' = 0
  /\ log' = Append(log, Ev("reset_low", <<>>, dcLine, csLine, TRUE))
  /\ Proceed
  /\ UNCHANGED <<links, pinsTaken, spiOpen, csLine, dcLine, busyLine, watch,
                 edge, call>>
  /\ UNCHANGED cvvars

\* reset.set_high(); sleep(..)
ResetHigh ==
  /\ Running("reset_high", "top")
  /\ resetLine' = 1
  /\ log' = Append(log, Ev("reset_high", <<>>, dcLine, csLine, TRUE))
  /\ Proceed
  /\ UNCHANGED <<links, pinsTaken, spiOpen, csLine, dcLine, busyLine, watch,
                 edge, call>>
  /\ UNCHANGED cvvars

(* ------------------------------ spi_send -------------------------------- *)
\* the lines at the head of spi_send: InkyE673 asserts chip-select and sets
\* command mode (then sleeps 300 ms); InkyWhat only sets command mode
SendBeginLines(variant) ==
  IF variant = "E673" THEN [cs |-> 0, dc |-> 0] ELSE [cs |-> csLine, dc |-> 0]

\* the lines at the tail of spi_send: InkyE673 raises chip-select and goes
\* back to command mode; InkyWhat returns Ok(()) without touching a line
SendEndLines(variant) ==
  IF variant = "E673" THEN [cs |-> 1, dc |-> 0] ELSE [cs |-> csLine, dc |-> dcLine]

\* the rest of the payload handed to one spi.write
ChunkAtWhole(data, done) == SubSeq(data, done + 1, Len(data))

\* data.chunks(MaxTransfer): the chunk that starts after `done` bytes
ChunkAt(data, done) == SubSeq(data, done + 1, Min(done + MaxTransfer, Len(data)))

SendBegin ==
  /\ Running("send", "top")
  /\ csLine' = SendBeginLines(call.variant).cs
  /\ dcLine' = SendBeginLines(call.variant).dc
  /\ sub' = "cmd"
  /\ UNCHANGED <<links, pinsTaken, spiOpen, resetLine, busyLine, watch, edge,
                 call, pc, off, log, result>>
  /\ UNCHANGED cvvars

\* spi.write(&[packet.command])?, then dc.set_high() when there is a payload
WriteCmd(ok) ==
  /\ Running("send", "cmd")
  /\ log' = Append(log, Ev("cmd", <<Cur.cmd>>, dcLine, csLine, ok))
  /\ IF ok
     THEN /\ dcLine' = IF Cur.hasData THEN 1 ELSE dcLine
          /\ sub' = IF Cur.hasData /\ Len(Cur.data) > 0 THEN "chunk" ELSE "end"
          /\ off' = 0
          /\ UNCHANGED <<pc, result>>
     ELSE /\ Propagate
          /\ UNCHANGED dcLine
  /\ UNCHANGED <<links, pinsTaken, spiOpen, csLine, resetLine, busyLine,
                 watch, edge, call>>
  /\ UNCHANGED cvvars

\* one turn of  for chunk in data.chunks(4096) { spi.write(chunk)?; }
WriteChunk(ok) ==
  /\ Running("send", "chunk")
  /\ LET chunk == ChunkAt(Cur.data, off)
     IN /\ log' = Append(log, Ev("chunk", chunk, dcLine, csLine, ok))
        /\ IF ok
           THEN /\ off' = off + Len(chunk)
                /\ sub' = IF off + Len(chunk) >= Len(Cur.data) THEN "end" ELSE "chunk"
                /\ UNCHANGED <<pc, result>>
           ELSE Propagate
  /\ UNCHANGED <<links, pinsTaken, spiOpen, csLine, dcLine, resetLine,
                 busyLine, watch, edge, call>>
  /\ UNCHANGED cvvars

\* the tail of spi_send and its Ok(())
SendEnd ==
  /\ Running("send", "end")
  /\ csLine' = SendEndLines(call.variant).cs
  /\ dcLine' = SendEndLines(call.variant).dc
  /\ log' = Append(log, Ev("sent", <<Cur.cmd>>, dcLine', csLine', TRUE))
  /\ Proceed
  /\ UNCHANGED <<links, pinsTaken, spiOpen, resetLine, busyLine, watch, edge,
                 call>>
  /\ UNCHANGED cvvars

(* -------------------------------- wait ---------------------------------- *)
\* Trigger the driver arms: InkyE673 RisingEdge, InkyWhat FallingEdge
TriggerOf(variant) == IF variant = "E673" THEN "rising" ELSE "falling"

\* InkyE673::wait tests busy.is_high() first; InkyWhat::wait has no such test
LevelSense(variant) == variant = "E673" /\ busyLine = 1

\* timeout.unwrap_or(Duration::from_millis(100))
SleepFor(t) == IF t = NoTimeout THEN DefaultLevelSleep ELSE t

\* entry of wait: the level-sense branch sleeps and returns Ok(()), the
\* other goes on to arm the watch
WaitEnter ==
  /\ Running("wait", "top")
  /\ IF LevelSense(call.variant)
     THEN /\ log' = log \o << Ev("level_sleep", <<SleepFor(Cur.t)>>, dcLine, csLine, TRUE),
                              Ev("waited", <<>>, dcLine, csLine, TRUE) >>
          /\ Proceed
     ELSE /\ sub' = "arm"
          /\ UNCHANGED <<pc, off, log, result>>
  /\ UNCHANGED <<links, pinsTaken, spiOpen, csLine, dcLine, resetLine,
                 busyLine, watch, edge, call>>
  /\ UNCHANGED cvvars

\* busy.set_interrupt(trigger)?: rppal removes the pin's previous interrupt,
\* then registers the new one; a failure may come before or after the removal
Arm(ok, left) ==
  /\ Running("wait", "arm")
  /\ log' = Append(log, Ev("arm", <<>>, dcLine, csLine, ok))
  /\ IF ok
     THEN /\ watch' = TriggerOf(call.variant)
          /\ edge' = FALSE
          /\ sub' = "poll"
          /\ UNCHANGED <<pc, off, result>>
     ELSE /\ left \in {watch, "none"}
          /\ watch' = left
          /\ edge' = (edge /\ left # "none")
          /\ Propagate
  /\ UNCHANGED <<links, pinsTaken, spiOpen, csLine, dcLine, resetLine,
                 busyLine, call>>
  /\ UNCHANGED cvvars

\* what poll_interrupt(false, timeout) can answer in the current state
PollOutcomes(t) ==
  {"error"} \cup (IF edge THEN {"edge"} ELSE IF t # NoTimeout THEN {"timeout"} ELSE {})

\* poll_interrupt's Ok(None) taken for an error
PollIsErrStrict(outcome) == outcome \in {"error", "timeout"}

\* busy.poll_interrupt(false, timeout)?: only Err(_) leaves through the ?
PollIsErr(outcome) == outcome = "error"

Poll(outcome) ==
  /\ Running("wait", "poll")
  /\ outcome \in PollOutcomes(Cur.t)
  /\ log' = Append(log, Ev("poll_" \o outcome, <<>>, dcLine, csLine, ~PollIsErr(outcome)))
  /\ IF PollIsErr(outcome)
     THEN /\ Propagate
          /\ UNCHANGED edge
     ELSE /\ sub' = "disarm"
          /\ edge' = FALSE
          /\ UNCHANGED <<pc, off, result>>
  /\ UNCHANGED <<links, pinsTaken, spiOpen, csLine, dcLine, resetLine,
                 busyLine, watch, call>>
  /\ UNCHANGED cvvars

\* busy.clear_interrupt()? and the Ok(()) of wait
Disarm(ok, left) ==
  /\ Running("wait", "disarm")
  /\ IF ok
     THEN /\ watch' = "none"
          /\ edge' = FALSE
          /\ log' = log \o << Ev("disarm", <<>>, dcLine, csLine, TRUE),
                              Ev("waited", <<>>, dcLine, csLine, TRUE) >>
          /\ Proceed
     ELSE /\ left \in {watch, "none"}
          /\ watch' = left
          /\ edge' = (edge /\ left # "none")
          /\ log' = Append(log, Ev("disarm", <<>>, dcLine, csLine, FALSE))
          /\ Propagate
  /\ UNCHANGED <<links, pinsTaken, spiOpen, csLine, dcLine, resetLine,
                 busyLine, call>>
  /\ UNCHANGED cvvars

(* ------------------------------ packers --------------------------------- *)
RECURSIVE BitAnd(_, _)
BitAnd(a, b) ==
  IF a = 0 \/ b = 0 THEN 0
  ELSE 2 * BitAnd(a \div 2, b \div 2) + (IF a % 2 = 1 /\ b % 2 = 1 THEN 1 ELSE 0)

RECURSIVE BitOr(_, _)
BitOr(a, b) ==
  IF a = 0 THEN b
  ELSE IF b = 0 THEN a
  ELSE 2 * BitOr(a \div 2, b \div 2) + (IF a % 2 = 1 \/ b % 2 = 1 THEN 1 ELSE 0)

RECURSIVE Pow2(_)
Pow2(n) == IF n = 0 THEN 1 ELSE 2 * Pow2(n - 1)

\* x << n on a u8
Shl8(x, n) == (x * Pow2(n)) % 256

\* as_u8 of inkye673.rs
E673AsU8(color) ==
  CASE color = "Black" -> 0
    [] color = "White" -> 1
    [] color = "Yellow" -> 2
    [] color = "Red" -> 3
    [] color = "Blue" -> 5
    [] color = "Green" -> 6

\* the byte of one pair with the two pixels in the wrong nibbles
E673PackPairSwapped(pair) ==
  BitOr(BitAnd(Shl8(E673AsU8(pair[2]), 4), 240), BitAnd(E673AsU8(pair[1]), 15))

\* ((pixel1 << 4) & 0xF0) | (pixel2 & 0x0F); pair[1] of a one-pixel chunk
\* is out of bounds and never evaluated: the ensure! has returned before
E673PackPair(pair) ==
  BitOr(BitAnd(Shl8(E673AsU8(pair[1]), 4), 240), BitAnd(E673AsU8(pair[2]), 15))

\* for pair in row.chunks(2) { result.push(..) }
E673PackRow(row) ==
  [k \in 1..(Len(row) \div 2) |-> E673PackPair(SubSeq(row, 2 * k - 1, 2 * k))]

PackErr == [ok |-> FALSE, bytes |-> <<>>]
PackOk(bytes) == [ok |-> TRUE, bytes |-> bytes]

\* the loop of InkyE673::convert without its ensure!: the last pixel of an
\* odd row is left out
RECURSIVE E673ConvertUnchecked(_, _, _)
E673ConvertUnchecked(buf, i, acc) ==
  IF i > Len(buf) THEN PackOk(acc)
  ELSE E673ConvertUnchecked(buf, i + 1, acc \o E673PackRow(buf[i]))

\* the loop of InkyE673::convert from row i on, with `acc` pushed so far
RECURSIVE E673ConvertFrom(_, _, _)
E673ConvertFrom(buf, i, acc) ==
  IF i > Len(buf) THEN PackOk(acc)
  ELSE IF Len(buf[i]) % 2 # 0 THEN PackErr
  ELSE E673ConvertFrom(buf, i + 1, acc \o E673PackRow(buf[i]))

\* InkyE673::convert
E673Convert(buf) == E673ConvertFrom(buf, 1, <<>>)

\* as_u8 of inkywhat.rs
WhatAsU8(color) == IF color # "Black" THEN 1 ELSE 0

\* the pixel loop of InkyWhat::convert filling each byte from its top bit
RECURSIVE WhatConvertMsbFirst(_, _, _, _, _, _)
WhatConvertMsbFirst(buf, r, c, acc, bit_pos, cur_byte) ==
  IF r > Len(buf)
  THEN IF bit_pos # 0 THEN Append(acc, cur_byte) ELSE acc
  ELSE IF c > Len(buf[r])
  THEN WhatConvertMsbFirst(buf, r + 1, 1, acc, bit_pos, cur_byte)
  ELSE LET byte == BitOr(cur_byte, Shl8(WhatAsU8(buf[r][c]), 7 - bit_pos))
       IN IF bit_pos + 1 = 8
          THEN WhatConvertMsbFirst(buf, r, c + 1, Append(acc, byte), 0, 0)
          ELSE WhatConvertMsbFirst(buf, r, c + 1, acc, bit_pos + 1, byte)

\* the two loops of InkyWhat::convert from pixel (r, c) on, and the push of
\* the last partial byte
RECURSIVE WhatConvertFrom(_, _, _, _, _, _)
WhatConvertFrom(buf, r, c, acc, bit_pos, cur_byte) ==
  IF r > Len(buf)
  THEN IF bit_pos # 0 THEN Append(acc, cur_byte) ELSE acc
  ELSE IF c > Len(buf[r])
  THEN WhatConvertFrom(buf, r + 1, 1, acc, bit_pos, cur_byte)
  ELSE LET byte == BitOr(cur_byte, Shl8(WhatAsU8(buf[r][c]), bit_pos))
       IN IF bit_pos + 1 = 8
          THEN WhatConvertFrom(buf, r, c + 1, Append(acc, byte), 0, 0)
          ELSE WhatConvertFrom(buf, r, c + 1, acc, bit_pos + 1, byte)

\* InkyWhat::convert
WhatConvert(buf) == PackOk(WhatConvertFrom(buf, 1, 1, <<>>, 0, 0))

\* the row lengths of the grids of at most r rows and n pixels in all
RowLens(r, n) ==
  UNION { { lens \in [1..k -> 0..n] : SumTo(lens, k) <= n } : k \in 0..r }

\* the grid with the pixels `flat` cut into rows of the lengths `lens`
Split(flat, lens) ==
  [r \in DOMAIN lens |->
     SubSeq(flat, SumTo(lens, r - 1) + 1, SumTo(lens, r))]

MonoPalette == {"Black", "White"}

\* the grids handed to the packers: rows of any lengths, over every color
\* up to MaxPixels pixels and over black and white up to MaxMonoPixels
IsInputGrid(g) ==
  \/ \E lens \in RowLens(MaxRows, MaxPixels) :
       \E flat \in [1..SumTo(lens, Len(lens)) -> Colors] : g = Split(flat, lens)
  \/ \E lens \in RowLens(MaxRows, MaxMonoPixels) :
       \E flat \in [1..SumTo(lens, Len(lens)) -> MonoPalette] : g = Split(flat, lens)

\* display.convert(&grid) on the 6-color driver
ConvertE673 ==
  /\ stage = "input"
  /\ stage' = "E673"
  /\ packed' = E673Convert(grid)
  /\ UNCHANGED grid
  /\ UNCHANGED <<rsvars, cnvars>>
  /\ UNCHANGED hwvars

\* display.convert(&grid) on the 2-color driver
ConvertWhat ==
  /\ stage = "input"
  /\ stage' = "What"
  /\ packed' = WhatConvert(grid)
  /\ UNCHANGED grid
  /\ UNCHANGED <<rsvars, cnvars>>
  /\ UNCHANGED hwvars

(* ---------------------------- rasterizers ------------------------------- *)
\* v as usize: a negative isize wraps to 2^64 + v.  The value is kept as
\* over * 2^64 + rest, so that it stays within the integers at hand.
AsUsize(v) == [over |-> IF v < 0 THEN 1 ELSE 0, rest |-> v]

\* (x as usize, y as usize)
Cell(x, y) == <<AsUsize(x), AsUsize(y)>>

\* let mut err = dx - dy, the sign of dy taken twice
LineErrFlipped(dx, dy) == dx - dy

\* let mut err = dx + dy
LineErr(dx, dy) == dx + dy

\* if a < b { 1 } else { -1 }
LineSign(a, b) == IF a < b THEN 1 ELSE -1

\* the loop of Line::line_coordinates at (x0, y0) with `acc` pushed so far;
\* k holds x1, y1, dx, dy, sx, sy.  done is FALSE when the loop is still
\* running after `fuel` more turns.
RECURSIVE LineLoop(_, _, _, _, _, _)
LineLoop(x0, y0, err, k, acc, fuel) ==
  LET pushed == Append(acc, Cell(x0, y0))
  IN IF x0 = k.x1 /\ y0 = k.y1 THEN [done |-> TRUE, cells |-> pushed]
     ELSE IF fuel = 0 THEN [done |-> FALSE, cells |-> pushed]
     ELSE LET e2 == 2 * err
              movex == e2 >= k.dy
              movey == e2 <= k.dx
              err1 == IF movex THEN err + k.dy ELSE err
              err2 == IF movey THEN err1 + k.dx ELSE err1
          IN LineLoop(IF movex THEN x0 + k.sx ELSE x0,
                      IF movey THEN y0 + k.sy ELSE y0,
                      err2, k, pushed, fuel - 1)

\* Line::line_coordinates, the loop followed for at most `fuel` turns
line_coordinates(start, end, fuel) ==
  LET dx == end[1] - start[1]
      dy == -(end[2] - start[2])
      k == [x1 |-> end[1], y1 |-> end[2], dx |-> dx, dy |-> dy,
            sx |-> LineSign(start[1], end[1]), sy |-> LineSign(start[2], end[2])]
  IN LineLoop(start[1], start[2], LineErr(dx, dy), k, <<>>, fuel)

\* for col in c0..c1, the last column left out
RowCellsExclusive(row, c0, c1) ==
  [i \in 1..(IF c0 < c1 THEN c1 - c0 ELSE 0) |-> Cell(row, c0 + i - 1)]

\* for col in c0..=c1 { result.push((row, col)) }
RowCells(row, c0, c1) ==
  [i \in 1..(IF c0 <= c1 THEN c1 - c0 + 1 ELSE 0) |-> Cell(row, c0 + i - 1)]

\* for row in row..=bottom_right.0 { for col in .. }
RECURSIVE RectFrom(_, _, _)
RectFrom(row, top_left, bottom_right) ==
  IF row > bottom_right[1] THEN <<>>
  ELSE RowCells(row, top_left[2], bottom_right[2])
         \o RectFrom(row + 1, top_left, bottom_right)

\* Rectangle::rectangle_coordinates
rectangle_coordinates(top_left, bottom_right) ==
  [done |-> TRUE, cells |-> RectFrom(top_left[1], top_left, bottom_right)]

\* Line::new(a, b) and Rectangle::new(a, b)
Line(a, b) == [kind |-> "line", a |-> a, b |-> b]
Rectangle(a, b) == [kind |-> "rect", a |-> a, b |-> b]
NoShape == [kind |-> "none", a |-> <<0, 0>>, b |-> <<0, 0>>]
NoCells == [done |-> FALSE, cells |-> <<>>]

\* the end points and corners tried
Coords == 0..MaxCoord
Points == Coords \X Coords

\* more turns than a line between two of the Points can take: every turn
\* that moves goes one way along each axis
MaxLineSteps == 2 * (MaxCoord + 1)

\* Drawable::coordinates
Coordinates(sh) ==
  IF sh.kind = "line" THEN line_coordinates(sh.a, sh.b, MaxLineSteps)
  ELSE rectangle_coordinates(sh.a, sh.b)

\* line.coordinates()
ApplyLine ==
  /\ rstage = "input"
  /\ shape.kind = "line"
  /\ rstage' = "line"
  /\ cells' = Coordinates(shape)
  /\ UNCHANGED <<shape, pkvars, cnvars>>
  /\ UNCHANGED hwvars

\* rectangle.coordinates()
ApplyRect ==
  /\ rstage = "input"
  /\ shape.kind = "rect"
  /\ rstage' = "rect"
  /\ cells' = Coordinates(shape)
  /\ UNCHANGED <<shape, pkvars, cnvars>>
  /\ UNCHANGED hwvars

(* ------------------------------- canvas --------------------------------- *)
\* Canvas::new: vec![vec![Color::White; width]; height]
Canvas_new(width, height) ==
  [width |-> width, height |-> height,
   pixels |-> [r \in 1..height |-> [c \in 1..width |-> "White"]]]

\* q[u] does not panic: the usize u indexes the vector q
Indexes(u, q) == u.over = 0 /\ u.rest < Len(q)

\* Canvas::get_pixel: self.pixels[col][row]
get_pixel(pixels, col, row) == pixels[col + 1][row + 1]

\* self.pixels[row][col] = color, the two indices exchanged
set_pixel_transposed(pixels, row, col, color) ==
  IF Indexes(row, pixels) /\ Indexes(col, pixels[row.rest + 1])
  THEN [ok |-> TRUE,
        pixels |-> [pixels EXCEPT ![row.rest + 1][col.rest + 1] = color]]
  ELSE [ok |-> FALSE, pixels |-> pixels]

\* Canvas::set_pixel: self.pixels[col][row] = color; ok is FALSE when the
\* indexing panics
set_pixel(pixels, row, col, color) ==
  IF Indexes(col, pixels) /\ Indexes(row, pixels[col.rest + 1])
  THEN [ok |-> TRUE,
        pixels |-> [pixels EXCEPT ![col.rest + 1][row.rest + 1] = color]]
  ELSE [ok |-> FALSE, pixels |-> pixels]

\* for (row, col) in coordinates { self.set_pixel(row, col, &color) }, from
\* the i-th coordinate on
RECURSIVE Paint(_, _, _, _)
Paint(pixels, q, i, color) ==
  IF i > Len(q) THEN [ok |-> TRUE, pixels |-> pixels]
  ELSE LET set == set_pixel(pixels, q[i][1], q[i][2], color)
       IN IF set.ok THEN Paint(set.pixels, q, i + 1, color) ELSE set

\* the canvases drawn on (width, height), the end points and corners of the
\* shapes drawn, those of the last row outside the canvas, and the colors
CanvasSizes == {<<3, 2>>}
CanvasPoints ==
  {p \in Points : \E z \in CanvasSizes : p[1] < z[1] /\ p[2] <= z[2]}
Shapes ==
  {Line(a, b) : a \in CanvasPoints, b \in CanvasPoints}
    \cup {Rectangle(a, b) : a \in CanvasPoints, b \in CanvasPoints}
DrawColors == {"Black", "White"}

\* the cells (x, y) of a canvas
CellsOf(cv) == (0..(cv.width - 1)) \X (0..(cv.height - 1))

\* Canvas::draw.  coordinates() is computed in full before the first pixel
\* is set: a line whose loop does not end leaves the canvas as it was and
\* draw does not return; an index out of range panics after the pixels
\* before it were set.
Canvas_draw(sh, color) ==
  /\ rstage = "canvas"
  /\ cstatus = "ok"
  /\ LET r == Coordinates(sh)
         done == Paint(canvas.pixels, r.cells, 1, color)
     IN /\ cells' = r
        /\ IF ~r.done
           THEN /\ cstatus' = "diverged"
                /\ UNCHANGED <<canvas, painted>>
           ELSE /\ cstatus' = (IF done.ok THEN "ok" ELSE "panicked")
                /\ canvas' = [canvas EXCEPT !.pixels = done.pixels]
                /\ painted' =
                     [c \in CellsOf(canvas) |->
                        IF Cell(c[1], c[2]) \in {r.cells[i] : i \in 1..Len(r.cells)}
                        THEN color ELSE painted[c]]
  /\ UNCHANGED <<shape, rstage, pkvars>>
  /\ UNCHANGED hwvars

(* ------------------------------- facade --------------------------------- *)
\* the panels an Inky is built for: variant, width, height
FacadePanels ==
  { [variant |-> "E673", width |-> 2, height |-> 1],
    [variant |-> "E673", width |-> 1, height |-> 2],
    [variant |-> "What", width |-> 3, height |-> 1] }

\* the shapes drawn on the canvas of an Inky
FacadeShapes ==
  {Rectangle(<<0, 0>>, <<0, 0>>), Rectangle(<<0, 0>>, <<2, 1>>)}

\* self.display.convert(&pixels) of the driver type built
DisplayConvert(driver, pixels) ==
  IF driver = "E673" THEN E673Convert(pixels) ELSE WhatConvert(pixels)

\* inky.canvas_mut().draw(shape, &color)
Facade_draw(h, sh, color) ==
  /\ Idle
  /\ links[h] # NoLink
  /\ Canvas_draw(sh, color)

\* Inky::update: let buf = self.display.convert(&self.canvas.pixels)?;
\* self.display.update(buf)
Inky_update(h) ==
  /\ Idle
  /\ links[h] # NoLink
  /\ rstage = "canvas"
  /\ cstatus = "ok"
  /\ LET buf == DisplayConvert(links[h].driver, canvas.pixels)
     IN IF buf.ok
        THEN CallUpdate(h, buf.bytes)
        ELSE /\ call' = Call("Inky::update", h, links[h].driver, <<>>,
                             NoTimeout, 0, FALSE)
             /\ log' = <<>>
             /\ result' = "format_error"
             /\ UNCHANGED <<links, pinsTaken, spiOpen, csLine, dcLine,
                            resetLine, busyLine, watch, edge, pc, sub, off>>
             /\ UNCHANGED cvvars

(* --------------------------- specifications ----------------------------- *)
HwInit ==
  /\ links = [h \in Handles |-> NoLink]
  /\ pinsTaken = {}
  /\ spiOpen = 0
  /\ csLine = 0
  /\ dcLine = 0
  /\ resetLine = 0
  /\ watch = "none"
  /\ edge = FALSE
  /\ call = NoCall
  /\ pc = 0
  /\ sub = "top"
  /\ off = 0
  /\ log = <<>>
  /\ result = "none"

\* the packers, the rasterizers and the canvas not in use
PackOff == grid = <<>> /\ packed = PackErr /\ stage = "off"
RasterOff == shape = NoShape /\ cells = NoCells /\ rstage = "off"
CanvasOff ==
  /\ canvas = [width |-> 0, height |-> 0, pixels |-> <<>>]
  /\ painted = <<>>
  /\ cstatus = "ok"

Init ==
  /\ HwInit
  /\ busyLine \in {0, 1}
  /\ PackOff
  /\ RasterOff
  /\ CanvasOff

Step ==
  \/ ResetLow
  \/ ResetHigh
  \/ SendBegin
  \/ WriteCmd(TRUE)
  \/ WriteChunk(TRUE)
  \/ SendEnd
  \/ WaitEnter
  \/ Arm(TRUE, "none")
  \/ \E o \in {"edge", "timeout"} : Poll(o)
  \/ Disarm(TRUE, "none")

Fault ==
  \/ WriteCmd(FALSE)
  \/ WriteChunk(FALSE)
  \/ \E left \in {"none", "rising", "falling"} : Arm(FALSE, left)
  \/ Poll("error")
  \/ \E left \in {"none", "rising", "falling"} : Disarm(FALSE, left)

Next ==
  \/ \E h \in Handles, d \in Descriptors, env \in EnvOutcomes : InkyE673_new(h, d, env)
  \/ \E h \in Handles, d \in Descriptors, env \in EnvOutcomes : InkyWhat_new(h, d, env)
  \/ \E h \in Handles, d \in Descriptors, env \in EnvOutcomes : Inky_try_from(h, d, env)
  \/ \E h \in Handles : DropLink(h)
  \/ \E h \in Handles, b \in Bufs : CallUpdate(h, b)
  \/ \E h \in Handles : CallReset(h)
  \/ \E h \in Handles, t \in Timeouts : CallWait(h, t)
  \/ \E h \in Handles, p \in Packets : CallSpiSend(h, p)
  \/ Step
  \/ Fault
  \/ BusyToggle

Spec == Init /\ [][Next]_vars

\* the calling thread keeps running: a statement that can complete does
FairSpec == Spec /\ WF_vars(Step)

ConvertInit ==
  /\ HwInit
  /\ busyLine = 0
  /\ IsInputGrid(grid)
  /\ packed = PackErr
  /\ stage = "input"
  /\ RasterOff
  /\ CanvasOff

ConvertNext == ConvertE673 \/ ConvertWhat

SpecConvert == ConvertInit /\ [][ConvertNext]_vars

RasterInit ==
  /\ HwInit
  /\ busyLine = 0
  /\ PackOff
  /\ CanvasOff
  /\ \E a \in Points, b \in Points : shape \in {Line(a, b), Rectangle(a, b)}
  /\ cells = NoCells
  /\ rstage = "input"

RasterNext == ApplyLine \/ ApplyRect

SpecRaster == RasterInit /\ [][RasterNext]_vars

CanvasInit ==
  /\ HwInit
  /\ busyLine = 0
  /\ PackOff
  /\ shape = NoShape
  /\ cells = NoCells
  /\ rstage = "canvas"
  /\ \E z \in CanvasSizes : canvas = Canvas_new(z[1], z[2])
  /\ painted = [c \in CellsOf(canvas) |-> "White"]
  /\ cstatus = "ok"

CanvasNext == \E sh \in Shapes, color \in DrawColors : Canvas_draw(sh, color)

SpecCanvas == CanvasInit /\ [][CanvasNext]_vars

\* after Inky::try_from(eeprom) returned Ok on the first handle
FacadeInit ==
  /\ \E d \in FacadePanels :
       /\ links = [h \in Handles |->
                     IF h = 1 THEN Link(Dispatch(d.variant), d) ELSE NoLink]
       /\ canvas = Canvas_new(d.width, d.height)
       /\ call = Call("Inky::try_from", 1, d.variant, <<>>, NoTimeout, 0, FALSE)
  /\ pinsTaken = Pins
  /\ spiOpen = 1
  /\ csLine = 1
  /\ dcLine = 0
  /\ resetLine = 1
  /\ busyLine \in {0, 1}
  /\ watch = "none"
  /\ edge = FALSE
  /\ pc = 0
  /\ sub = "top"
  /\ off = 0
  /\ log = <<>>
  /\ result = "ok"
  /\ PackOff
  /\ shape = NoShape
  /\ cells = NoCells
  /\ rstage = "canvas"
  /\ painted = [c \in CellsOf(canvas) |-> "White"]
  /\ cstatus = "ok"

FacadeNext ==
  \/ \E sh \in FacadeShapes : Facade_draw(1, sh, "Black")
  \/ Inky_update(1)
  \/ Step
  \/ Fault
  \/ BusyToggle

SpecFacade == FacadeInit /\ [][FacadeNext]_vars

\* a payload of two full chunks and one byte more
LongPayload == [i \in 1..(2 * MaxTransfer + 1) |-> i % 256]

\* a payload of exactly one full chunk
FullPayload == [i \in 1..MaxTransfer |-> (7 * i) % 256]

SendPackets ==
  Packets \cup { [cmd |-> 16, hasData |-> TRUE, data |-> LongPayload],
                 [cmd |-> 36, hasData |-> TRUE, data |-> FullPayload] }

\* after a driver's new returned Ok on the first handle
SendInit ==
  /\ \E d \in Descriptors :
       /\ Dispatch(d.variant) # "none"
       /\ links = [h \in Handles |->
                     IF h = 1 THEN Link(Dispatch(d.variant), d) ELSE NoLink]
       /\ call = Call("Inky::try_from", 1, d.variant, <<>>, NoTimeout, 0, FALSE)
  /\ pinsTaken = Pins
  /\ spiOpen = 1
  /\ csLine = 1
  /\ dcLine = 0
  /\ resetLine = 1
  /\ busyLine \in {0, 1}
  /\ watch = "none"
  /\ edge = FALSE
  /\ pc = 0
  /\ sub = "top"
  /\ off = 0
  /\ log = <<>>
  /\ result = "ok"
  /\ PackOff
  /\ RasterOff
  /\ CanvasOff

SendNext ==
  \/ \E p \in SendPackets : CallSpiSend(1, p)
  \/ SendBegin
  \/ WriteCmd(TRUE)
  \/ WriteCmd(FALSE)
  \/ WriteChunk(TRUE)
  \/ WriteChunk(FALSE)
  \/ SendEnd
  \/ BusyToggle

SpecSend == SendInit /\ [][SendNext]_vars

(* ============================ properties ================================ *)
HasEv(k) == \E i \in DOMAIN log : log[i].k = k

\* positions of the log where the opcode `op` was written
OpcodeAt(op) == {i \in DOMAIN log : log[i].k = "cmd" /\ log[i].data = <<op>>}

\* the payload bytes written right after the opcode at position i - 1
RECURSIVE PayloadFrom(_)
PayloadFrom(j) ==
  IF j <= Len(log) /\ log[j].k = "chunk" THEN log[j].data \o PayloadFrom(j + 1) ELSE <<>>

PixelOp(variant) == IF variant = "E673" THEN E673Cmd.DTM1 ELSE WhatCmd.SetBWBuffer
RefreshOp(variant) == IF variant = "E673" THEN E673Cmd.DRF ELSE WhatCmd.TriggerDisplayUpdate
PowerDownOp(variant) == IF variant = "E673" THEN E673Cmd.POF ELSE WhatCmd.EnterDeepSleep

Returned(op) == pc = 0 /\ call.op = op

\* C1: an update that returned success wrote the pixel-buffer opcode exactly
\* once with the caller's buffer as payload, later the refresh opcode, later
\* completed a busy wait, later wrote the power-down opcode, and wrote no
\* opcode after that one (the only writes after it are its own payload).
C1_UpdateOrder ==
  (Returned("update") /\ result = "ok") =>
    LET v == call.variant
    IN /\ Cardinality(OpcodeAt(PixelOp(v))) = 1
       /\ \A i \in OpcodeAt(PixelOp(v)) : PayloadFrom(i + 1) = call.buf
       /\ \E i \in OpcodeAt(PixelOp(v)), j \in OpcodeAt(RefreshOp(v)),
             w \in DOMAIN log, s \in OpcodeAt(PowerDownOp(v)) :
            /\ i < j /\ j < w /\ w < s
            /\ log[w].k = "waited"
            /\ \A m \in DOMAIN log : log[m].k = "cmd" => m <= s
            /\ \A m \in DOMAIN log :
                 (m > s /\ log[m].k = "chunk") =>
                   \A n \in (s + 1)..m : log[n].k = "chunk"
       /\ \A m \in DOMAIN log : log[m].ok

C1_Witness ==
  /\ Returned("update") /\ result = "ok"
  /\ call.variant = "E673"
  /\ call.buf # <<>>

\* C2: in an update, a bus write that failed is the last thing the call did:
\* the call has returned the I/O error and no write follows the failed one.
C2_WriteFailureAborts ==
  call.op = "update" =>
    \A i \in DOMAIN log :
      (log[i].k \in {"cmd", "chunk"} /\ ~log[i].ok) =>
        (i = Len(log) /\ pc = 0 /\ result = "io_error")

\* a payload write of the reset part of InkyE673::update failed
C2_Witness ==
  /\ Returned("update") /\ result = "io_error"
  /\ call.variant = "E673"
  /\ Len(log) > 0
  /\ log[Len(log)].k = "chunk" /\ ~log[Len(log)].ok
  /\ OpcodeAt(E673Cmd.PWR) # {}
  /\ OpcodeAt(E673Cmd.DTM1) = {}

\* C3: every update and reset call in flight eventually returns.
C3_CallsReturn ==
  (pc > 0 /\ call.op \in {"update", "reset"}) ~> (pc = 0)

\* C4: a call that armed a watch on the busy line and has returned left no
\* watch armed.
C4_WatchDisarmed ==
  (pc = 0 /\ \E i \in DOMAIN log : log[i].k = "arm" /\ log[i].ok) => watch = "none"

\* C5: a wait of the 6-color driver that found the busy line high slept for
\* the caller's timeout (100 ms when none), returned success, armed no
\* watch, and no watch is armed when it has returned.
C5_LevelSenseWait ==
  (Returned("wait") /\ call.variant = "E673" /\ HasEv("level_sleep")) =>
    /\ log[1].k = "level_sleep"
    /\ log[1].data = << IF call.t = NoTimeout THEN DefaultLevelSleep ELSE call.t >>
    /\ result = "ok"
    /\ ~HasEv("arm")
    /\ watch = "none"

\* C6, original statement: a wait whose poll timed out returns an error.
C6_TimeoutIsError ==
  (Returned("wait") /\ HasEv("poll_timeout")) => result = "io_error"

\* C6 amended: a poll that timed out is not an error; wait goes on to disarm
\* the watch and, that done, returns success.  Only a step that itself failed
\* ends the call, with the I/O error.  The level-sense branch returns success
\* right after its sleep.
C6_TimeoutProceeds ==
  /\ \A i \in DOMAIN log :
       log[i].k = "poll_timeout" =>
         /\ log[i].ok
         /\ IF i = Len(log)
            THEN pc > 0 /\ sub = "disarm"
            ELSE /\ log[i + 1].k = "disarm"
                 /\ log[i + 1].ok => (i + 2 <= Len(log) /\ log[i + 2].k = "waited")
  /\ \A i \in DOMAIN log :
       log[i].k = "level_sleep" => (i < Len(log) /\ log[i + 1].k = "waited")
  /\ \A i \in DOMAIN log :
       ~log[i].ok => (i = Len(log) /\ pc = 0 /\ result = "io_error")
  /\ (Returned("wait") /\ HasEv("waited")) => result = "ok"

\* an update that succeeded although one of its polls timed out
C6_Witness ==
  /\ Returned("update") /\ result = "ok"
  /\ HasEv("poll_timeout")

\* C7: when a bus transaction has completed, chip-select is high and the
\* data/command line is low.
C7_LinesIdleAfterSend ==
  \A i \in DOMAIN log : log[i].k = "sent" => (log[i].cs = 1 /\ log[i].dc = 0)

Alive == {h \in Handles : links[h] # NoLink}

Constructors == {"E673::new", "What::new", "Inky::try_from"}

\* C8: at most one link is alive, holding the bus and the four pins; a
\* construction attempted while another link is alive has failed and made
\* no link.
C8_OneLink ==
  /\ Cardinality(Alive) <= 1
  /\ spiOpen = Cardinality(Alive)
  /\ (Alive # {}) => pinsTaken = Pins
  /\ (call.op \in Constructors /\ Alive \ {call.h} # {}) =>
       (result # "ok" /\ links[call.h] = NoLink)

\* a construction for a supported variant refused because the pins are held
C8_Witness ==
  /\ call.op = "Inky::try_from"
  /\ call.variant = "What"
  /\ result = "pin_used"
  /\ Alive \ {call.h} # {}

(* ------------------------- packer properties ---------------------------- *)
\* the pixels of a grid in row-major order
RECURSIVE Flatten(_)
Flatten(g) == IF g = <<>> THEN <<>> ELSE Head(g) \o Flatten(Tail(g))

\* bit n of a byte, bit 0 the least significant
BitOf(byte, n) == (byte \div Pow2(n)) % 2

EvenRows(g) == \A r \in DOMAIN g : Len(g[r]) % 2 = 0

\* the color a 4-bit code stands for
ColorOfCode(code) == CHOOSE c \in Colors : E673AsU8(c) = code

\* C9: for a grid whose rows all have even length the 6-color packer
\* succeeds with half as many bytes as pixels, (rowLen / 2) * rowCount when
\* the rows are equally long; the high nibble of byte k is the code of
\* pixel 2k and the low nibble the code of pixel 2k + 1 in row-major order,
\* and the codes of distinct colors differ, so both pixels are recovered.
C9_PairedPacking ==
  (stage = "E673" /\ EvenRows(grid)) =>
    LET px == Flatten(grid)
        out == packed.bytes
    IN /\ packed.ok
       /\ 2 * Len(out) = Len(px)
       /\ (\A r \in DOMAIN grid : Len(grid[r]) = Len(grid[1])) =>
            (grid # <<>> => Len(out) = (Len(grid[1]) \div 2) * Len(grid))
       /\ \A k \in 0..(Len(out) - 1) :
            /\ out[k + 1] \div 16 = E673AsU8(px[2 * k + 1])
            /\ out[k + 1] % 16 = E673AsU8(px[2 * k + 2])
            /\ ColorOfCode(out[k + 1] \div 16) = px[2 * k + 1]
            /\ ColorOfCode(out[k + 1] % 16) = px[2 * k + 2]
       /\ \A c1, c2 \in Colors : (c1 # c2) => (E673AsU8(c1) # E673AsU8(c2))
       /\ \A c \in Colors : E673AsU8(c) < 16

\* two rows of two pixels, four different colors
C9_Witness ==
  /\ stage = "E673"
  /\ packed.ok
  /\ Len(grid) = 2
  /\ Len(grid[1]) = 2 /\ Len(grid[2]) = 2
  /\ Cardinality({grid[1][1], grid[1][2], grid[2][1], grid[2][2]}) = 4
  /\ "Blue" \in {grid[1][1], grid[2][2]}

\* C10: the 2-color packer returns ceil(pixelCount / 8) bytes; bit (i mod 8)
\* of byte (i div 8), counted from the least significant bit, is 0 iff pixel
\* i in row-major order is black, the numbering running on across rows; the
\* bits of the last byte above the last pixel are zero.
C10_BitPacking ==
  (stage = "What") =>
    LET px == Flatten(grid)
        n == Len(px)
        out == packed.bytes
    IN /\ packed.ok
       /\ Len(out) = (n + 7) \div 8
       /\ \A i \in 0..(n - 1) :
            BitOf(out[(i \div 8) + 1], i % 8) = (IF px[i + 1] = "Black" THEN 0 ELSE 1)
       /\ (n % 8 # 0) => (out[Len(out)] < Pow2(n % 8))
       /\ \A k \in DOMAIN out : out[k] \in 0..255

\* nine pixels in two rows that end inside a byte, the ninth not black
C10_Witness ==
  /\ stage = "What"
  /\ Len(grid) = 2
  /\ Len(grid[1]) = 5 /\ Len(grid[2]) = 4
  /\ grid[1][1] = "Black" /\ grid[1][2] = "White"
  /\ grid[2][4] = "White"
  /\ Len(packed.bytes) = 2
  /\ packed.bytes[2] = 1

(* ---------------------- construction properties ------------------------- *)
Resources == <<links, pinsTaken, spiOpen, csLine, dcLine, resetLine>>

\* what a construction that got as far as InkyConnection::new can return
LinkOutcomes == {"ok", "gpio_error", "spi_error", "pin_used"}

\* the facade and driver constructors, as the state they leave
ConstructionState ==
  /\ call.op = "Inky::try_from" =>
       /\ call.variant \in {"E673", "What"} => result \in LinkOutcomes
       /\ call.variant \notin {"E673", "What"} => result = "unsupported_variant"
       /\ result = "ok" =>
            /\ links[call.h].variant = call.variant
            /\ links[call.h].driver = "E673" <=> call.variant = "E673"
            /\ links[call.h].driver = "What" <=> call.variant = "What"
       /\ result # "ok" => links[call.h] = NoLink
  /\ call.op = "E673::new" =>
       /\ call.variant # "E673" => (result = "variant_error" /\ links[call.h] = NoLink)
       /\ result = "ok" => links[call.h].driver = "E673"
  /\ call.op = "What::new" =>
       /\ call.variant # "What" => (result = "variant_error" /\ links[call.h] = NoLink)
       /\ result = "ok" => links[call.h].driver = "What"

\* a construction refused for its variant took no bus, pin or line
RefusedTakesNothing ==
  (call'.op \in Constructors /\ result' \in {"unsupported_variant", "variant_error"})
    => UNCHANGED Resources

\* C12: Inky::try_from yields the 6-color driver exactly for the variant E673
\* and the 2-color driver exactly for What; for any other variant it fails
\* with the unsupported-variant error and acquires no bus or line; a driver
\* constructor given another variant's descriptor fails before it acquires
\* anything.
C12_Dispatch == []ConstructionState /\ [][RefusedTakesNothing]_vars

\* the facade refused a descriptor of a variant it has no driver for
C12_Witness ==
  /\ call.op = "Inky::try_from"
  /\ call.variant = "Phat"
  /\ result = "unsupported_variant"
  /\ pinsTaken = {} /\ spiOpen = 0


(* ------------------------ rasterizer properties ------------------------- *)
\* u and v, two usize values, differ by at most 1
Near(u, v) ==
  /\ u.over = v.over
  /\ u.rest - v.rest \in {-1, 0, 1}

\* the usize value u lies between the naturals p and q, in either order
Between(u, p, q) ==
  /\ u.over = 0
  /\ Min(p, q) <= u.rest
  /\ u.rest <= (IF p < q THEN q ELSE p)

\* the cell c lies inside the bounding box of the points a and b
InBox(c, a, b) == Between(c[1], a[1], b[1]) /\ Between(c[2], a[2], b[2])

\* the cells of the inclusive bounding box of a and b
Box(a, b) == {c \in {Cell(x, y) : x \in Coords, y \in Coords} : InBox(c, a, b)}

\* the sequence q holds no cell twice
NoRepeat(q) == \A i \in 1..Len(q), j \in 1..Len(q) : q[i] = q[j] => i = j

Range(q) == {q[i] : i \in 1..Len(q)}

\* C13: for every two end points, in every direction, the line rasterizer
\* terminates with a sequence that starts at the start point, ends at the end
\* point, moves by at most 1 in each coordinate from one cell to the next and
\* never leaves the bounding box of the end points.
C13_LineAllDirections ==
  rstage = "line" =>
    LET q == cells.cells
    IN /\ cells.done
       /\ q[1] = Cell(shape.a[1], shape.a[2])
       /\ q[Len(q)] = Cell(shape.b[1], shape.b[2])
       /\ \A i \in 1..(Len(q) - 1) :
            Near(q[i][1], q[i + 1][1]) /\ Near(q[i][2], q[i + 1][2])
       /\ \A i \in 1..Len(q) : InBox(q[i], shape.a, shape.b)

\* the line runs along one axis and its other coordinate does not decrease
AxisForward(sh) ==
  \/ sh.a[1] = sh.b[1] /\ sh.a[2] <= sh.b[2]
  \/ sh.a[2] = sh.b[2] /\ sh.a[1] <= sh.b[1]

\* the n+1 cells from a to b along the axis, in order
AxisCells(a, b) ==
  IF a[1] = b[1]
  THEN [i \in 1..(b[2] - a[2] + 1) |-> Cell(a[1], a[2] + i - 1)]
  ELSE [i \in 1..(b[1] - a[1] + 1) |-> Cell(a[1] + i - 1, a[2])]

\* C14: a line from (a,b) to (a,b+n) or to (a+n,b), n >= 0, rasterizes to
\* exactly the n+1 cells between the end points, each once, in order from
\* start to end; a line whose start is its end yields exactly one cell.
C14_AxisLines ==
  (rstage = "line" /\ AxisForward(shape)) =>
    /\ cells.done
    /\ cells.cells = AxisCells(shape.a, shape.b)
    /\ NoRepeat(cells.cells)
    /\ (shape.a = shape.b => Len(cells.cells) = 1)

C14_Witness ==
  /\ rstage = "line"
  /\ shape = Line(<<0, 0>>, <<0, 4>>)
  /\ cells.done
  /\ Len(cells.cells) = 5

\* C15, original statement: for every two corners the rectangle rasterizer
\* returns every cell of the inclusive bounding box between them exactly once
\* and no other cell.
C15_AnyTwoCorners ==
  rstage = "rect" =>
    /\ Range(cells.cells) = Box(shape.a, shape.b)
    /\ NoRepeat(cells.cells)

\* top_left is at or before bottom_right along both axes
CornersOrdered(sh) == sh.a[1] <= sh.b[1] /\ sh.a[2] <= sh.b[2]

\* C15: when the first corner is at or before the second along both axes,
\* the rectangle rasterizer returns every cell of the inclusive box exactly
\* once and no other cell, w*h coordinates for a box of w by h cells (6 for
\* (2,2) to (4,3)); when the first corner is beyond the second along either
\* axis it returns no cell at all.
C15_OrderedCorners ==
  rstage = "rect" =>
    IF CornersOrdered(shape)
    THEN /\ Range(cells.cells) = Box(shape.a, shape.b)
         /\ NoRepeat(cells.cells)
         /\ Len(cells.cells) =
              (shape.b[1] - shape.a[1] + 1) * (shape.b[2] - shape.a[2] + 1)
    ELSE cells.cells = <<>>

C15_Witness ==
  /\ rstage = "rect"
  /\ shape = Rectangle(<<2, 2>>, <<4, 3>>)
  /\ Len(cells.cells) = 6


(* -------------------------- canvas properties --------------------------- *)
\* every cell holds the color of the last draw that produced it, white if
\* none did
LastWriteWins ==
  (rstage = "canvas" /\ cstatus = "ok") =>
    \A c \in CellsOf(canvas) : get_pixel(canvas.pixels, c[2], c[1]) = painted[c]

\* a draw leaves every cell its shape did not produce as it was
DrawFrame ==
  rstage' = "canvas" =>
    \A c \in CellsOf(canvas) :
      Cell(c[1], c[2]) \notin Range(cells'.cells) =>
        get_pixel(canvas'.pixels, c[2], c[1]) = get_pixel(canvas.pixels, c[2], c[1])

\* C16: after any sequence of draws that returned, every cell holds the
\* color of the most recent draw whose shape produced it and every cell no
\* shape produced is still white; a draw changes no cell outside the
\* coordinates its shape produces.
C16_LastWriteWins == []LastWriteWins /\ [][DrawFrame]_vars

\* a white cell inside a black rectangle drawn before it
C16_Witness ==
  /\ rstage = "canvas"
  /\ cstatus = "ok"
  /\ canvas.width = 3
  /\ get_pixel(canvas.pixels, 0, 0) = "Black"
  /\ get_pixel(canvas.pixels, 0, 1) = "White"
  /\ get_pixel(canvas.pixels, 1, 2) = "Black"
  /\ get_pixel(canvas.pixels, 1, 0) = "White"
  /\ cells.cells = <<Cell(1, 0)>>


(* -------------------------- facade properties --------------------------- *)
\* some row of the grid has an odd length
OddRow(g) == \E r \in 1..Len(g) : Len(g[r]) % 2 = 1

\* grids of black pixels with rows of unequal lengths
RaggedGrids ==
  {[r \in 1..Len(lens) |-> [c \in 1..lens[r] |-> "Black"]] :
     lens \in RowLens(MaxRows, MaxPixels)}

\* convert of the 6-color driver refuses every grid with an odd row,
\* wherever the row stands, and returns no bytes
OddRowRefused ==
  /\ \A g \in RaggedGrids : OddRow(g) => E673Convert(g) = PackErr
  /\ (rstage = "canvas" /\ links[1].driver = "E673" /\ OddRow(canvas.pixels))
       => E673Convert(canvas.pixels) = PackErr

\* a render of such a canvas returns the error and does nothing else
RenderRefused ==
  (/\ rstage = "canvas"
   /\ Idle
   /\ links[1].driver = "E673"
   /\ OddRow(canvas.pixels)
   /\ (call' # call \/ pc' # pc))
    => /\ result' = "format_error"
       /\ pc' = 0
       /\ log' = <<>>
       /\ UNCHANGED <<csLine, dcLine, resetLine, watch, spiOpen>>
       /\ canvas' = canvas

\* C11: under the 6-color driver a canvas with an odd-length row makes
\* convert return a format error and no bytes; Inky::update returns that
\* error without calling the driver's update, so no line is toggled and no
\* bus write is issued, and the canvas pixels stay as they were.
C11_OddRowRender == []OddRowRefused /\ [][RenderRefused]_vars

C11_Witness ==
  /\ call.op = "Inky::update"
  /\ result = "format_error"
  /\ links[1].driver = "E673"
  /\ canvas.pixels = <<<<"Black">>, <<"White">>>>
  /\ log = <<>>


(* ----------------------- reset and wait properties ---------------------- *)
\* positions of the log where an event of kind k stands
EvAt(k) == {i \in DOMAIN log : log[i].k = k}

\* before position i the reset line went low and afterwards high
PulsedBefore(i) ==
  \E j \in EvAt("reset_low"), k \in EvAt("reset_high") : j < k /\ k < i

\* before position i the reset line was pulsed and afterwards a wait returned
SyncedBefore(i) ==
  \E k \in EvAt("reset_high"), m \in EvAt("waited") :
    PulsedBefore(k + 1) /\ k < m /\ m < i

\* C17: every update, of either driver, pulses the reset line low then high
\* before it writes its first configuration opcode.
C17_UpdatePulsesReset ==
  call.op = "update" => \A i \in EvAt("cmd") : PulsedBefore(i)

\* C18, original statement: in reset() of both drivers the reset line goes
\* low then high and a wait on the busy line returns before the first
\* opcode is written.
C18_WaitBeforeAnySend ==
  call.op = "reset" => \A i \in EvAt("cmd") : SyncedBefore(i)

\* C18: reset() of both drivers starts by driving the reset line low and then
\* high.  In the 6-color driver a wait on the busy line returns before the
\* first opcode is written.  In the 2-color driver the soft-reset opcode is
\* written right after the pulse, it is the only opcode written, and the wait
\* on the busy line comes after it: a reset that returned Ok completed that
\* wait after the soft reset was sent.
C18_ResetOrder ==
  call.op = "reset" =>
    /\ Len(log) >= 1 => log[1].k = "reset_low"
    /\ Len(log) >= 2 => log[2].k = "reset_high"
    /\ call.variant = "E673" => \A i \in EvAt("cmd") : SyncedBefore(i)
    /\ call.variant = "What" =>
         /\ EvAt("cmd") \subseteq {3}
         /\ Len(log) >= 3 =>
              log[3].k = "cmd" /\ log[3].data = <<WhatCmd.SoftReset>>
         /\ \A m \in EvAt("arm") \cup EvAt("waited") :
              \E i \in EvAt("sent") : i < m
         /\ (pc = 0 /\ result = "ok") => EvAt("waited") # {}

C18_Witness ==
  /\ Returned("reset")
  /\ result = "ok"
  /\ call.variant = "What"
  /\ EvAt("cmd") = {3}
  /\ \E m \in EvAt("waited") : m > 3

\* C19: wait(None) returns after a finite time in both drivers and both
\* branches; here, a wait(None) that was entered returns.
C19_WaitNoneReturns ==
  (pc > 0 /\ call.op = "wait" /\ call.t = NoTimeout) ~> (pc = 0)


(* ------------------------ transaction properties ------------------------ *)
\* C20: a transaction writes its opcode first, as one write of one byte with
\* the data/command line low, then its payload with the line high in
\* consecutive writes of 1 to 4096 bytes whose concatenation, in order, is
\* the payload written so far and, once the transaction returned Ok, the
\* whole payload; without a payload, or with an empty one, nothing but the
\* opcode is written.
C20_Transaction ==
  call.op = "spi_send" =>
    /\ \A i \in DOMAIN log : log[i].k \in {"cmd", "chunk", "sent"}
    /\ EvAt("cmd") \subseteq {1}
    /\ Len(log) >= 1 =>
         /\ log[1].k = "cmd"
         /\ log[1].data = <<call.cmd>>
         /\ log[1].dc = 0
    /\ \A i \in EvAt("chunk") :
         /\ log[i - 1].k \in {"cmd", "chunk"}
         /\ log[i - 1].ok
         /\ log[i].dc = 1
         /\ Len(log[i].data) >= 1
         /\ Len(log[i].data) <= MaxTransfer
    /\ PayloadFrom(2) = SubSeq(call.buf, 1, Len(PayloadFrom(2)))
    /\ (pc = 0 /\ result = "ok") => PayloadFrom(2) = call.buf
    /\ (~call.hasData \/ call.buf = <<>>) => EvAt("chunk") = {}

C20_Witness ==
  /\ Returned("spi_send")
  /\ result = "ok"
  /\ Len(call.buf) > 2 * MaxTransfer
  /\ Cardinality(EvAt("chunk")) = 3
  /\ Len(log[4].data) = 1


(* ----------------------- bounds and race properties --------------------- *)
\* the grid has `height` rows of `width` cells
GridShape ==
  /\ Len(canvas.pixels) = canvas.height
  /\ \A r \in 1..Len(canvas.pixels) : Len(canvas.pixels[r]) = canvas.width

\* C21: for every line and rectangle and every canvas, draw never indexes
\* outside the width x height grid and always returns, and after any
\* sequence of draws the grid has `height` rows of `width` cells.
C21_DrawInBounds ==
  rstage = "canvas" => (cstatus = "ok" /\ GridShape)

\* C22: in the wait of the 6-color driver a rise of the busy line after the
\* entry check is never missed: while the wait polls with the line high, the
\* watch holds the rising edge, so the poll returns by it and not by the
\* timeout.
C22_RiseNotMissed ==
  (Running("wait", "poll") /\ call.variant = "E673" /\ busyLine = 1) => edge

====
